---- MODULE Spec2Model ----
(***************************************************************************)
(* Model of bquant_app: the dollar-neutral computation engine              *)
(* (logic.py, compute_dollar_neutral) on pandas Series / DataFrame values. *)
(*                                                                         *)
(* A pandas Series is a sequence of rows [date, val] with distinct dates,  *)
(* in the order the caller built it.  A value is <<x>> for the number x    *)
(* and <<>> for a missing value (NaN).  Dates are day numbers.  Prices and *)
(* deltas are finite numbers, modelled by integers (a delta of 0.6 is 6 in *)
(* tenths): on finite values the arithmetic of the engine is the same in   *)
(* exact and in floating-point arithmetic up to rounding.                  *)
(* An optional argument is <<>> for Python's None and <<x>> for x.         *)
(***************************************************************************)
EXTENDS Integers, Sequences, FiniteSets, TLC

\* Dates of the model are 1..MaxDate.
MaxDate == 2

Dates == 1..MaxDate

None == <<>>
NaN == <<>>
Some(x) == <<x>>

VARIABLES
    cb_close,          \* argument: Series of convertible close prices
    udly_close,        \* argument: Series of underlying close prices
    ud_delta,          \* argument: Series of convertible deltas
    anchor_date,       \* argument: None or Some(date)
    method,            \* argument: a string
    nuke_series,       \* argument: None or Some(Series)
    delta_override,    \* argument: None or Some(number)
    use_oldest_delta,  \* argument: a boolean
    pc,                \* "call" before the call, then "returned" or "raised"
    ret,               \* the outcome of the call: error, table and locals
    env,               \* the BQL runtime: what each request to it answers
    nk,                \* the frame of compute_nuke_series_with_bql
    app                \* the frame of the orchestration function

vars == <<cb_close, udly_close, ud_delta, anchor_date, method, nuke_series,
          delta_override, use_oldest_delta, pc, ret, env, nk, app>>

args == <<cb_close, udly_close, ud_delta, anchor_date, method, nuke_series,
          delta_override, use_oldest_delta>>

----------------------------------------------------------------------------
(* pandas primitives used by the engine *)

Range(s) == {s[i] : i \in 1..Len(s)}

\* Series.index
Index(s) == [i \in 1..Len(s) |-> s[i].date]

\* value of Series s at label d; NaN where s has no such label
ValueAt(s, d) ==
    IF \E i \in 1..Len(s) : s[i].date = d
    THEN s[CHOOSE i \in 1..Len(s) : s[i].date = d].val
    ELSE NaN

\* arithmetic on values: a missing operand gives a missing result
Sub(a, b) == IF a = NaN \/ b = NaN THEN NaN ELSE <<a[1] - b[1]>>
Add(a, b) == IF a = NaN \/ b = NaN THEN NaN ELSE <<a[1] + b[1]>>
Mul(a, b) == IF a = NaN \/ b = NaN THEN NaN ELSE <<a[1] * b[1]>>

\* outer-join index of pd.concat(axis=1): the labels of the inputs, each once,
\* in order of first appearance
RECURSIVE AppendNew(_, _)
AppendNew(idx, labels) ==
    IF labels = <<>> THEN idx
    ELSE AppendNew(IF Head(labels) \in Range(idx) THEN idx
                   ELSE Append(idx, Head(labels)),
                   Tail(labels))

UnionIndex(cb, ud, dl) ==
    AppendNew(AppendNew(AppendNew(<<>>, Index(cb)), Index(ud)), Index(dl))

\* pd.concat({...}, axis=1): one row per label of the union, NaN where a
\* series has no value at the label
Concat(cb, ud, dl) ==
    LET idx == UnionIndex(cb, ud, dl)
    IN  [i \in 1..Len(idx) |->
            [date       |-> idx[i],
             cb_close   |-> ValueAt(cb, idx[i]),
             udly_close |-> ValueAt(ud, idx[i]),
             ud_delta   |-> ValueAt(dl, idx[i])]]

KeepRowAll(r) == r.cb_close # NaN \/ r.udly_close # NaN \/ r.ud_delta # NaN
KeepRow(r) == r.cb_close # NaN /\ r.udly_close # NaN /\ r.ud_delta # NaN

\* DataFrame.dropna() with how="all": a mutation of Dropna
DropnaHowAll(frame) == SelectSeq(frame, KeepRowAll)

\* DataFrame.dropna(): drops every row holding a missing value
Dropna(frame) == SelectSeq(frame, KeepRow)

\* insertion of row r into a frame sorted by date
RECURSIVE InsertRow(_, _)
InsertRow(r, sorted) ==
    IF sorted = <<>> THEN <<r>>
    ELSE IF r.date < Head(sorted).date THEN <<r>> \o sorted
    ELSE <<Head(sorted)>> \o InsertRow(r, Tail(sorted))

\* a frame left in the order of the concat: a mutation of SortIndex
NoSortIndex(frame) == frame

\* DataFrame.sort_index(): rows in ascending order of date
RECURSIVE SortIndex(_)
SortIndex(frame) ==
    IF frame = <<>> THEN <<>>
    ELSE InsertRow(Head(frame), SortIndex(Tail(frame)))

\* anchor_date in df.index
InIndex(df, d) == \E i \in 1..Len(df) : df[i].date = d

\* df.index.searchsorted(d), side="left": the number of labels before d
Searchsorted(df, d) == Cardinality({i \in 1..Len(df) : df[i].date < d})

\* df.at[d, col] for a label d of the index
RowAt(df, d) == df[CHOOSE i \in 1..Len(df) : df[i].date = d]

\* pd.Timestamp(x) of a Timestamp x
Timestamp(d) == d

\* Series.reindex(df.index): the value of the series at each label of the
\* frame, NaN where the series has none
Reindex(series, df) == [i \in 1..Len(df) |-> ValueAt(series, df[i].date)]

----------------------------------------------------------------------------
(* logic.py: compute_dollar_neutral *)

\* the messages of the four ValueError the engine raises
ErrUnsupportedMethod == "Unsupported method. Use 'delta' or 'external_nuke'."
ErrEmptyOverlap == "No overlapping dates between cb_close, udly_close and ud_delta."
ErrAnchorOutOfRange == "Anchor date is after the last available data point."
ErrMissingNukeSeries == "method='external_nuke' requires nuke_series to be provided."
NoError == "none"

\* the aligned frame: concat, dropna, sort_index
Align(cb, ud, dl) == SortIndex(Dropna(Concat(cb, ud, dl)))

\* variants of ResolveAnchor with a plausible bug: snapping one position too
\* far; clamping to the last date instead of raising; defaulting to the last
\* aligned date
ResolveAnchorSkip(df, anchor) ==
    IF anchor = None THEN [err |-> NoError, T0 |-> df[1].date]
    ELSE LET a == Timestamp(anchor[1])
             pos == Searchsorted(df, a)
         IN  IF InIndex(df, a) THEN [err |-> NoError, T0 |-> a]
             ELSE IF pos + 1 >= Len(df) THEN [err |-> ErrAnchorOutOfRange]
             ELSE [err |-> NoError, T0 |-> df[pos + 2].date]

ResolveAnchorClamp(df, anchor) ==
    IF anchor = None THEN [err |-> NoError, T0 |-> df[1].date]
    ELSE LET a == Timestamp(anchor[1])
             pos == Searchsorted(df, a)
         IN  IF InIndex(df, a) THEN [err |-> NoError, T0 |-> a]
             ELSE IF pos >= Len(df) THEN [err |-> NoError, T0 |-> df[Len(df)].date]
             ELSE [err |-> NoError, T0 |-> df[pos + 1].date]

ResolveAnchorDefaultLast(df, anchor) ==
    IF anchor = None THEN [err |-> NoError, T0 |-> df[Len(df)].date]
    ELSE LET a == Timestamp(anchor[1])
             pos == Searchsorted(df, a)
         IN  IF InIndex(df, a) THEN [err |-> NoError, T0 |-> a]
             ELSE IF pos >= Len(df) THEN [err |-> ErrAnchorOutOfRange]
             ELSE [err |-> NoError, T0 |-> df[pos + 1].date]

\* anchor resolution on the non-empty aligned frame df: the first date when
\* no anchor is given; the given date when it is a label of df; else the
\* label at the searchsorted position, and an error past the end
ResolveAnchor(df, anchor) ==
    IF anchor = None THEN [err |-> NoError, T0 |-> df[1].date]
    ELSE LET a == Timestamp(anchor[1])
             pos == Searchsorted(df, a)
         IN  IF InIndex(df, a) THEN [err |-> NoError, T0 |-> a]
             ELSE IF pos >= Len(df) THEN [err |-> ErrAnchorOutOfRange]
             ELSE [err |-> NoError, T0 |-> df[pos + 1].date]

\* a variant of AnchorValues with a plausible bug: U0 read from the first row
AnchorValuesFirstRow(df, T0) ==
    [CB0 |-> RowAt(df, T0).cb_close, U0 |-> df[1].udly_close]

\* CB0 = df.at[anchor_date, "cb_close"]; U0 = df.at[anchor_date, "udly_close"]
AnchorValues(df, T0) ==
    [CB0 |-> RowAt(df, T0).cb_close, U0 |-> RowAt(df, T0).udly_close]

\* a variant of ResolveD0 with a plausible bug: the override tested for
\* truth instead of "is not None"
ResolveD0Truthy(df, T0, override, oldest) ==
    IF override # None /\ override # Some(0) THEN override
    ELSE IF oldest THEN df[1].ud_delta
    ELSE RowAt(df, T0).ud_delta

\* D0: the override, else the delta of the first row, else the delta at T0
ResolveD0(df, T0, override, oldest) ==
    IF override # None THEN override
    ELSE IF oldest THEN df[1].ud_delta
    ELSE RowAt(df, T0).ud_delta

\* a variant of LinearNuke with a plausible bug: the parentheses dropped
LinearNukeNoParens(df, CB0, D0, U0) ==
    [i \in 1..Len(df) |-> Sub(Add(CB0, Mul(D0, df[i].udly_close)), U0)]

\* CB0 + D0 * (df["udly_close"] - U0), row by row
LinearNuke(df, CB0, D0, U0) ==
    [i \in 1..Len(df) |-> Add(CB0, Mul(D0, Sub(df[i].udly_close, U0)))]

\* a variant of ExternalNuke with a plausible bug: the series taken by
\* position instead of by label
ExternalNukeByPosition(series, df) ==
    [i \in 1..Len(df) |-> IF i <= Len(series) THEN series[i].val ELSE NaN]

\* nuke_series.reindex(df.index)
ExternalNuke(series, df) == Reindex(series, df)

\* df["nuke"] = nuke; df["dn"] = df["nuke"] - df["cb_close"]
WithNukeAndDn(df, nuke) ==
    [i \in 1..Len(df) |->
        [date       |-> df[i].date,
         cb_close   |-> df[i].cb_close,
         udly_close |-> df[i].udly_close,
         ud_delta   |-> df[i].ud_delta,
         nuke       |-> nuke[i],
         dn         |-> Sub(nuke[i], df[i].cb_close)]]

Raise(e) ==
    [err |-> e, df |-> <<>>, T0 |-> None, CB0 |-> None, U0 |-> None, D0 |-> None]

\* a variant of NukeColumn with a plausible bug: an absent nuke_series
\* taken as an empty one
NukeColumnNoCheck(df, m, nuke, CB0, D0, U0) ==
    IF m = "external_nuke"
    THEN [err |-> NoError,
          col |-> ExternalNuke(IF nuke = None THEN <<>> ELSE nuke[1], df)]
    ELSE [err |-> NoError, col |-> LinearNuke(df, CB0, D0, U0)]

\* the nuke column of the method, or the error of a missing nuke_series
NukeColumn(df, m, nuke, CB0, D0, U0) ==
    IF m = "external_nuke"
    THEN IF nuke = None THEN [err |-> ErrMissingNukeSeries]
         ELSE [err |-> NoError, col |-> ExternalNuke(nuke[1], df)]
    ELSE [err |-> NoError, col |-> LinearNuke(df, CB0, D0, U0)]

\* a variant of compute_dollar_neutral with a plausible bug: the method
\* checked where it is used, after the alignment and the anchor
compute_dollar_neutral_LateMethodCheck(cb, ud, dl, anchor, m, nuke, override, oldest) ==
    LET df == Align(cb, ud, dl) IN
    IF df = <<>> THEN Raise(ErrEmptyOverlap)
    ELSE
    LET a == ResolveAnchor(df, anchor) IN
    IF a.err # NoError THEN Raise(a.err)
    ELSE IF m \notin {"delta", "external_nuke"} THEN Raise(ErrUnsupportedMethod)
    ELSE
    LET CB0 == AnchorValues(df, a.T0).CB0
        U0  == AnchorValues(df, a.T0).U0
        D0  == ResolveD0(df, a.T0, override, oldest)
        n   == NukeColumn(df, m, nuke, CB0, D0, U0)
    IN  IF n.err # NoError THEN Raise(n.err)
        ELSE [err |-> NoError, df |-> WithNukeAndDn(df, n.col),
              T0 |-> Some(a.T0), CB0 |-> CB0, U0 |-> U0, D0 |-> D0]

\* a variant of InputsAfterCall with a plausible bug: the series sorted in
\* place (sort_index(inplace=True)) before the concat
InputsAfterInplaceSort(cb, ud, dl, nuke) ==
    <<SortIndex(cb), SortIndex(ud), SortIndex(dl), nuke>>

\* the argument series after a call: concat, dropna, sort_index and reindex
\* build new objects, and the two column assignments write to the new frame
InputsAfterCall(cb, ud, dl, nuke) == <<cb, ud, dl, nuke>>

\* the outcome of compute_dollar_neutral: the error raised (NoError when it
\* returns), the table returned, and the locals T0 (anchor_date after its
\* resolution), CB0, U0 and D0
compute_dollar_neutral(cb, ud, dl, anchor, m, nuke, override, oldest) ==
    IF m \notin {"delta", "external_nuke"} THEN Raise(ErrUnsupportedMethod)
    ELSE
    LET df == Align(cb, ud, dl) IN
    IF df = <<>> THEN Raise(ErrEmptyOverlap)
    ELSE
    LET a == ResolveAnchor(df, anchor) IN
    IF a.err # NoError THEN Raise(a.err)
    ELSE
    LET CB0 == AnchorValues(df, a.T0).CB0
        U0  == AnchorValues(df, a.T0).U0
        D0  == ResolveD0(df, a.T0, override, oldest)
        n   == NukeColumn(df, m, nuke, CB0, D0, U0)
    IN  IF n.err # NoError THEN Raise(n.err)
        ELSE [err |-> NoError, df |-> WithNukeAndDn(df, n.col),
              T0 |-> Some(a.T0), CB0 |-> CB0, U0 |-> U0, D0 |-> D0]

----------------------------------------------------------------------------
(* bql_fetch.py: compute_nuke_series_with_bql                              *)
(*                                                                         *)
(* The BQL runtime is the environment.  env.service is "no_service" when   *)
(* _get_bql_service raises, "no_nuke_func" when the service has no         *)
(* nuke_dollar_neutral_price, and "ok".  env.bulk is None when the         *)
(* vectorized request fails (bq.execute or _ensure_series raises) and      *)
(* Some(series) for the series it answers.  env.single[d] is None when the *)
(* request for date d fails and Some(v) for the value v it answers, which  *)
(* may be NaN: float() of a missing value does not raise.                  *)

ErrNukeUnavailable == "BQL nuke function is unavailable; use linear method."
ErrNoService == "Bloomberg BQL runtime not available (cannot import 'bql'). Run in BQuant environment."
ErrNukeFailed == "Unable to compute nuke series via BQL (both vectorized and fallback failed)."

\* Series.dropna()
DropnaSeries(s) == SelectSeq(s, LAMBDA r : r.val # NaN)

\* the frame on entry
NukeStart ==
    [pc |-> "try", values |-> <<>>, todo |-> <<>>, calls |-> <<>>,
     err |-> NoError, series |-> <<>>]

\* the try block: the vectorized request, reindexed on the sorted input
\* index and stripped of missing values; any exception, and an empty
\* result, lead to the except block
TryBlock(f, udly, e) ==
    LET input_series == SortIndex(udly)
        series_vec ==
            DropnaSeries([i \in 1..Len(input_series) |->
                [date |-> input_series[i].date,
                 val  |-> ValueAt(e.bulk[1], input_series[i].date)]])
    IN  IF e.service # "ok" \/ input_series = <<>> \/ e.bulk = None
           \/ series_vec = <<>>
        THEN [f EXCEPT !.pc = "except"]
        ELSE [f EXCEPT !.pc = "returned", !.series = series_vec]

\* a variant of ExceptBlock with a plausible bug: the availability of the
\* nuke function not tested again
ExceptBlockNoBail(f, udly, e) ==
    IF e.service = "no_service"
    THEN [f EXCEPT !.pc = "raised", !.err = ErrNoService]
    ELSE [f EXCEPT !.pc = "loop", !.todo = SortIndex(udly)]

\* the head of the except block: the service is fetched again and the call
\* bails out when the nuke function is absent; else the loop starts on the
\* items of udly_close.sort_index()
ExceptBlock(f, udly, e) ==
    IF e.service = "no_service"
    THEN [f EXCEPT !.pc = "raised", !.err = ErrNoService]
    ELSE IF e.service = "no_nuke_func"
    THEN [f EXCEPT !.pc = "raised", !.err = ErrNukeUnavailable]
    ELSE [f EXCEPT !.pc = "loop", !.todo = SortIndex(udly)]

\* one iteration of the loop: compute_nuke_with_bql_function_single for the
\* next date; its value is stored, its exception skips the date
LoopIter(f, e) ==
    LET d == Head(f.todo).date
        ok == e.service = "ok" /\ e.single[d] # None
    IN  [f EXCEPT !.todo = Tail(f.todo),
                  !.calls = Append(f.calls, d),
                  !.values = IF ok
                             THEN Append(f.values, [date |-> d, val |-> e.single[d][1]])
                             ELSE f.values]

\* after the loop: raise when no value was stored, else
\* pd.Series(values).sort_index()
LoopEnd(f) ==
    IF f.values = <<>>
    THEN [f EXCEPT !.pc = "raised", !.err = ErrNukeFailed]
    ELSE [f EXCEPT !.pc = "returned", !.series = SortIndex(f.values)]

\* one step of the function
NukeStep(f, udly, e) ==
    IF f.pc = "try" THEN TryBlock(f, udly, e)
    ELSE IF f.pc = "except" THEN ExceptBlock(f, udly, e)
    ELSE IF f.todo # <<>> THEN LoopIter(f, e)
    ELSE LoopEnd(f)

\* the frame when the function returns or raises
RECURSIVE RunNuke(_, _, _)
RunNuke(f, udly, e) ==
    IF f.pc \in {"returned", "raised"} THEN f
    ELSE RunNuke(NukeStep(f, udly, e), udly, e)

compute_nuke_series_with_bql(udly, e) == RunNuke(NukeStart, udly, e)

----------------------------------------------------------------------------
(* the calls explored *)

\* prices, deltas (in tenths) and external nuke values by date
CbTable == <<100, 101, 99, 102>>
UdlyTable == <<50, 52, 49, 53>>
DeltaTable == <<6, 5, 7, 4>>
NukeTable == <<100, 103, 98, 104>>

RECURSIVE Ascending(_)
Ascending(S) ==
    IF S = {} THEN <<>>
    ELSE LET m == CHOOSE x \in S : \A y \in S : x <= y
         IN  <<m>> \o Ascending(S \ {m})

Reverse(s) == [i \in 1..Len(s) |-> s[Len(s) + 1 - i]]

\* the Series holding, at each date d with c[d] # "absent", the value
\* tbl[d] or NaN, in ascending or descending order of date
MkSeries(c, tbl, desc) ==
    LET asc == Ascending({d \in DOMAIN c : c[d] # "absent"})
        s == [i \in 1..Len(asc) |->
                 [date |-> asc[i],
                  val  |-> IF c[asc[i]] = "nan" THEN NaN ELSE Some(tbl[asc[i]])]]
    IN  IF desc THEN Reverse(s) ELSE s

\* a Series with a value at every date of Dates
FullSeries(f) == [d \in Dates |-> [date |-> d, val |-> Some(f[d])]]

Anchors == {None} \cup {Some(d) : d \in 0..(MaxDate + 1)}

\* a Series of any order: distinct dates of Dates, each with its table value
AnyOrderSeries(tbl) ==
    LET idxs == UNION {[1..k -> Dates] : k \in 0..MaxDate}
    IN  {[i \in 1..Len(idx) |-> [date |-> idx[i], val |-> Some(tbl[idx[i]])]] :
            idx \in {x \in idxs : \A i, j \in 1..Len(x) : x[i] = x[j] => i = j}}

\* nuke series over the dates 1..MaxDate+1: any subset of the dates, and
\* any set of missing values
NukeSeriesSet ==
    {MkSeries(c, NukeTable, FALSE) :
        c \in [1..(MaxDate + 1) -> {"absent", "val"}]
              \cup [1..(MaxDate + 1) -> {"nan", "val"}]}

\* series of any shape: each date absent, missing or present in each series
InitShapes ==
    /\ \E c \in [Dates -> {"absent", "nan", "val"}] :
           cb_close = MkSeries(c, CbTable, FALSE)
    /\ \E c \in [Dates -> {"absent", "nan", "val"}] :
           udly_close = MkSeries(c, UdlyTable, FALSE)
    /\ \E c \in [Dates -> {"absent", "nan", "val"}] :
           ud_delta = MkSeries(c, DeltaTable, FALSE)
    /\ anchor_date \in Anchors \ {Some(0)}
    /\ \E p \in {<<"delta", None, None, FALSE>>,
                 <<"delta", Some(FullSeries(NukeTable)), Some(0), TRUE>>,
                 <<"external_nuke", None, None, FALSE>>,
                 <<"external_nuke", Some(FullSeries(NukeTable)), None, TRUE>>,
                 <<"black_scholes", None, None, FALSE>>,
                 <<"DELTA", Some(FullSeries(NukeTable)), Some(0), TRUE>>} :
           /\ method = p[1]
           /\ nuke_series = p[2]
           /\ delta_override = p[3]
           /\ use_oldest_delta = p[4]

\* series in any order
InitOrders ==
    /\ cb_close \in AnyOrderSeries(CbTable)
    /\ udly_close \in AnyOrderSeries(UdlyTable)
    /\ ud_delta \in AnyOrderSeries(DeltaTable)
    /\ anchor_date = None
    /\ method = "delta"
    /\ nuke_series = None
    /\ delta_override = None
    /\ use_oldest_delta = FALSE

\* complete series of any values, with every choice of the parameters
InitValues ==
    /\ \E f \in [Dates -> {100, 101}] : cb_close = FullSeries(f)
    /\ \E f \in [Dates -> {50, 52}] : udly_close = FullSeries(f)
    /\ \E f \in [Dates -> {5, 6}] : ud_delta = FullSeries(f)
    /\ anchor_date \in Anchors
    /\ \/ /\ method = "delta"
          /\ nuke_series \in {None, Some(FullSeries(NukeTable))}
          /\ delta_override \in {None, Some(0), Some(7)}
          /\ use_oldest_delta \in BOOLEAN
       \/ /\ method = "external_nuke"
          /\ nuke_series \in {None} \cup {Some(s) : s \in NukeSeriesSet}
          /\ \/ delta_override = None /\ use_oldest_delta = FALSE
             \/ delta_override = Some(0) /\ use_oldest_delta = TRUE

\* a runtime that is not called
NoEnv == [service |-> "no_service", bulk |-> None, single |-> <<>>]

\* no call of compute_nuke_series_with_bql
NoNuke == [NukeStart EXCEPT !.pc = "idle"]

\* no orchestration function running
NoApp ==
    [fn |-> "none", cb_ticker |-> <<>>, df |-> <<>>, actual_anchor |-> None,
     method_note |-> "", exc |-> NoError]

Init ==
    /\ pc = "call"
    /\ ret = Raise(NoError)
    /\ env = NoEnv
    /\ nk = NoNuke
    /\ app = NoApp
    /\ (InitShapes \/ InitOrders \/ InitValues)

\* one call of compute_dollar_neutral on the arguments
Call ==
    /\ pc = "call"
    /\ ret' = compute_dollar_neutral(cb_close, udly_close, ud_delta, anchor_date,
                                     method, nuke_series, delta_override,
                                     use_oldest_delta)
    /\ pc' = IF ret'.err = NoError THEN "returned" ELSE "raised"
    /\ LET after == InputsAfterCall(cb_close, udly_close, ud_delta, nuke_series)
       IN  /\ cb_close' = after[1]
           /\ udly_close' = after[2]
           /\ ud_delta' = after[3]
           /\ nuke_series' = after[4]
    /\ UNCHANGED <<anchor_date, method, delta_override, use_oldest_delta, env, nk, app>>

Next == Call

Spec == Init /\ [][Next]_vars

\* the runtimes explored: without service, without nuke function, and with
\* any answer to the vectorized request and to the request of each date
Envs ==
    {[service |-> sv, bulk |-> None, single |-> [d \in Dates |-> None]] :
        sv \in {"no_service", "no_nuke_func"}}
    \cup
    {[service |-> "ok", bulk |-> b,
      single |-> [d \in Dates |->
                     IF k[d] = "fail" THEN None
                     ELSE IF k[d] = "nan" THEN Some(NaN)
                     ELSE Some(Some(NukeTable[d]))]] :
        b \in {None} \cup {Some(x) : x \in NukeSeriesSet},
        k \in [Dates -> {"fail", "nan", "val"}]}

\* a call of compute_nuke_series_with_bql on any udly_close
InitNuke ==
    /\ pc = "nuke"
    /\ ret = Raise(NoError)
    /\ cb_close = <<>>
    /\ ud_delta = <<>>
    /\ anchor_date = None
    /\ method = "external_nuke"
    /\ nuke_series = None
    /\ delta_override = None
    /\ use_oldest_delta = FALSE
    /\ \/ \E c \in [Dates -> {"absent", "nan", "val"}] :
              udly_close = MkSeries(c, UdlyTable, FALSE)
       \/ udly_close \in AnyOrderSeries(UdlyTable)
    /\ env \in Envs
    /\ nk = NukeStart
    /\ app = NoApp

NukeFrame == <<cb_close, udly_close, ud_delta, anchor_date, method, nuke_series,
               delta_override, use_oldest_delta, pc, ret, env, app>>

NukeTry ==
    /\ pc = "nuke" /\ nk.pc = "try"
    /\ nk' = TryBlock(nk, udly_close, env)
    /\ UNCHANGED NukeFrame

NukeExcept ==
    /\ pc = "nuke" /\ nk.pc = "except"
    /\ nk' = ExceptBlock(nk, udly_close, env)
    /\ UNCHANGED NukeFrame

NukeIter ==
    /\ pc = "nuke" /\ nk.pc = "loop" /\ nk.todo # <<>>
    /\ nk' = LoopIter(nk, env)
    /\ UNCHANGED NukeFrame

NukeEnd ==
    /\ pc = "nuke" /\ nk.pc = "loop" /\ nk.todo = <<>>
    /\ nk' = LoopEnd(nk)
    /\ UNCHANGED NukeFrame

NextNuke == NukeTry \/ NukeExcept \/ NukeIter \/ NukeEnd

SpecNuke == InitNuke /\ [][NextNuke]_vars

----------------------------------------------------------------------------
(* static_app.py: plot_dn_static, plot_dn_static_from_series; app.py:      *)
(* DNApp._on_run.  A Python string is a sequence of characters.  The notes *)
(* are written without their accents and dashes.                           *)

Upper == <<"A", "B", "C", "D", "E", "F", "G", "H", "I", "J", "K", "L", "M",
           "N", "O", "P", "Q", "R", "S", "T", "U", "V", "W", "X", "Y", "Z">>
Lower == <<"a", "b", "c", "d", "e", "f", "g", "h", "i", "j", "k", "l", "m",
           "n", "o", "p", "q", "r", "s", "t", "u", "v", "w", "x", "y", "z">>

\* str.lower()
ToLower(c) ==
    IF \E i \in 1..Len(Upper) : Upper[i] = c
    THEN Lower[CHOOSE i \in 1..Len(Upper) : Upper[i] = c]
    ELSE c

StrLower(str) == [i \in 1..Len(str) |-> ToLower(str[i])]

\* str.strip()
RECURSIVE LStrip(_)
LStrip(str) ==
    IF str # <<>> /\ Head(str) = " " THEN LStrip(Tail(str)) ELSE str

RECURSIVE RStrip(_)
RStrip(str) ==
    IF str # <<>> /\ str[Len(str)] = " "
    THEN RStrip(SubSeq(str, 1, Len(str) - 1))
    ELSE str

Strip(str) == RStrip(LStrip(str))

\* str.startswith(prefix)
StartsWith(str, prefix) ==
    Len(str) >= Len(prefix) /\ SubSeq(str, 1, Len(prefix)) = prefix

StrBql == <<"b", "q", "l">>
StrBqlNuke == <<"B", "Q", "L", " ", "n", "u", "k", "e">>
StrExternal == <<"e", "x", "t", "e", "r", "n", "a", "l">>
StrDelta == <<"D", "e", "l", "t", "a">>

NoteDelta == "Delta (lineaire)"
NoteBql == "BQL nuke"
NoteFallbackStatic == "Delta (lineaire - fallback)"
NoteFallbackOnRun == "Delta (fallback, BQL nuke echec)"

ErrNoTicker == "Veuillez saisir le ticker de l'obligation convertible."

\* the test of the BQL nuke path: method.strip().lower().startswith("bql")
\* in plot_dn_static, method == "BQL nuke" in _on_run
SelectsBql(fn, m) ==
    IF fn = "_on_run" THEN m = StrBqlNuke
    ELSE StartsWith(StrLower(Strip(m)), StrBql)

\* a variant of EngineMethod with a plausible bug: the case kept
EngineMethodCaseSensitive(m) ==
    IF ~StartsWith(m, StrExternal) THEN "delta" ELSE "external_nuke"

\* plot_dn_static_from_series:
\* "delta" if not method.lower().startswith("external") else "external_nuke"
EngineMethod(m) ==
    IF ~StartsWith(StrLower(m), StrExternal) THEN "delta" ELSE "external_nuke"

\* actual_anchor = pd.Timestamp(anchor_date) if anchor_date else df.index[0]
ActualAnchor(anchor, df) ==
    IF anchor # None THEN Timestamp(anchor[1]) ELSE df[1].date

\* df["udly_close"]
UdlyColumn(df) == [i \in 1..Len(df) |-> [date |-> df[i].date, val |-> df[i].udly_close]]

\* a variant of TryBql with a plausible bug: the failure of the provider
\* not caught
TryBqlUncaught(fn, df, actual_anchor, cb, ud, dl, e) ==
    LET fallback == IF fn = "_on_run" THEN NoteFallbackOnRun ELSE NoteFallbackStatic
        frame == compute_nuke_series_with_bql(UdlyColumn(df), e)
        r2 == compute_dollar_neutral(cb, ud, dl, Some(actual_anchor),
                                     "external_nuke", Some(frame.series),
                                     None, FALSE)
    IN  IF ~InIndex(df, actual_anchor)
        THEN [df |-> df, method_note |-> fallback, nk |-> NoNuke, exc |-> NoError]
        ELSE IF frame.pc = "raised"
        THEN [df |-> <<>>, method_note |-> "", nk |-> frame, exc |-> frame.err]
        ELSE IF r2.err # NoError
        THEN [df |-> df, method_note |-> fallback, nk |-> frame, exc |-> NoError]
        ELSE [df |-> r2.df, method_note |-> NoteBql, nk |-> frame, exc |-> NoError]

\* the try block of the BQL nuke path on the DELTA table df: the anchor
\* prices read at actual_anchor (a KeyError when it is no label of df), the
\* nuke series of the provider, the external_nuke call of the engine; any
\* exception keeps df and sets the fallback note
TryBql(fn, df, actual_anchor, cb, ud, dl, e) ==
    LET fallback == IF fn = "_on_run" THEN NoteFallbackOnRun ELSE NoteFallbackStatic
        frame == compute_nuke_series_with_bql(UdlyColumn(df), e)
        r2 == compute_dollar_neutral(cb, ud, dl, Some(actual_anchor),
                                     "external_nuke", Some(frame.series),
                                     None, FALSE)
    IN  IF ~InIndex(df, actual_anchor)
        THEN [df |-> df, method_note |-> fallback, nk |-> NoNuke, exc |-> NoError]
        ELSE IF frame.pc = "raised"
        THEN [df |-> df, method_note |-> fallback, nk |-> frame, exc |-> NoError]
        ELSE IF r2.err # NoError
        THEN [df |-> df, method_note |-> fallback, nk |-> frame, exc |-> NoError]
        ELSE [df |-> r2.df, method_note |-> NoteBql, nk |-> frame, exc |-> NoError]

\* the runtimes explored with the orchestration
AppEnvs ==
    {e \in Envs :
        /\ e.bulk \in {None, Some(FullSeries(NukeTable)),
                       Some(MkSeries([d \in Dates |->
                                         IF d = 1 THEN "nan" ELSE "val"],
                                     NukeTable, FALSE))}
        /\ \/ \A d \in Dates : e.single[d] = None
           \/ \A d \in Dates : e.single[d] = Some(Some(NukeTable[d]))
           \/ \A d \in Dates : e.single[d] = IF d = 1 THEN Some(NaN) ELSE None}

\* the method strings explored, by function
AppMethods(fn) ==
    IF fn = "plot_dn_static"
    THEN {StrBqlNuke, <<" ", "b", "q", "l">>, StrDelta, <<"n", "o", " ", "B", "Q", "L">>}
    ELSE IF fn = "_on_run" THEN {StrBqlNuke, StrDelta}
    ELSE {StrDelta, StrExternal, <<"E", "x", "t", "e", "r", "n", "a", "l", " ", "n">>,
          <<" ", "e", "x", "t", "e", "r", "n", "a", "l">>, <<"e", "x", "t">>}

\* a call of one of the three functions on fetched series
InitApp ==
    /\ pc = "app"
    /\ ret = Raise(NoError)
    /\ nk = NoNuke
    /\ nuke_series = None
    /\ \E c \in [Dates -> {"absent", "val"}] : cb_close = MkSeries(c, CbTable, FALSE)
    /\ \E c \in [Dates -> {"nan", "val"}] : udly_close = MkSeries(c, UdlyTable, FALSE)
    /\ \E a \in {"absent", "val"} :
           ud_delta = MkSeries([d \in Dates |-> IF d = 1 THEN a ELSE "val"],
                               DeltaTable, FALSE)
    /\ anchor_date \in Anchors
    /\ \/ delta_override = None /\ use_oldest_delta = FALSE
       \/ delta_override = Some(0) /\ use_oldest_delta = TRUE
    /\ \E fn \in {"plot_dn_static", "_on_run", "plot_dn_static_from_series"} :
           /\ method \in AppMethods(fn)
           /\ \E t \in IF fn = "_on_run" THEN {<<" ">>, <<"X">>} ELSE {<<"X">>} :
                  app = [NoApp EXCEPT !.fn = fn, !.cb_ticker = t]
           /\ IF fn = "plot_dn_static_from_series" THEN env = NoEnv
              ELSE IF SelectsBql(fn, method) THEN env \in AppEnvs
              ELSE env \in {e \in AppEnvs : e.bulk = None /\ e.single[1] = None}

\* plot_dn_static and _on_run up to the test of the method: the fetch, the
\* DELTA call of the engine, actual_anchor.  An exception leaves
\* plot_dn_static; _on_run reports it in its status and sets no table.
AppStart ==
    /\ pc = "app"
    /\ app.fn \in {"plot_dn_static", "_on_run"}
    /\ LET r == compute_dollar_neutral(cb_close, udly_close, ud_delta, anchor_date,
                                       "delta", None, delta_override,
                                       use_oldest_delta)
       IN  IF app.fn = "_on_run" /\ Strip(app.cb_ticker) = <<>>
           THEN /\ app' = [app EXCEPT !.exc = ErrNoTicker]
                /\ pc' = "app_raised"
                /\ ret' = ret
           ELSE IF env.service = "no_service"
           THEN /\ app' = [app EXCEPT !.exc = ErrNoService]
                /\ pc' = "app_raised"
                /\ ret' = ret
           ELSE IF r.err # NoError
           THEN /\ app' = [app EXCEPT !.exc = r.err]
                /\ pc' = "app_raised"
                /\ ret' = r
           ELSE /\ ret' = r
                /\ app' = [app EXCEPT !.df = r.df,
                                      !.actual_anchor = Some(ActualAnchor(anchor_date, r.df)),
                                      !.method_note = NoteDelta]
                /\ pc' = IF SelectsBql(app.fn, method) THEN "app_try" ELSE "app_done"
    /\ UNCHANGED <<cb_close, udly_close, ud_delta, anchor_date, method, nuke_series,
                   delta_override, use_oldest_delta, env, nk>>

\* the BQL nuke path of plot_dn_static and _on_run
AppTry ==
    /\ pc = "app_try"
    /\ LET t == TryBql(app.fn, app.df, app.actual_anchor[1], cb_close, udly_close,
                       ud_delta, env)
       IN  /\ app' = [app EXCEPT !.df = t.df, !.method_note = t.method_note,
                                 !.exc = t.exc]
           /\ nk' = t.nk
           /\ pc' = IF t.exc = NoError THEN "app_done" ELSE "app_raised"
    /\ UNCHANGED <<cb_close, udly_close, ud_delta, anchor_date, method, nuke_series,
                   delta_override, use_oldest_delta, env, ret>>

\* plot_dn_static_from_series: one call of the engine, without nuke_series
AppFromSeries ==
    /\ pc = "app"
    /\ app.fn = "plot_dn_static_from_series"
    /\ LET r == compute_dollar_neutral(cb_close, udly_close, ud_delta, anchor_date,
                                       EngineMethod(method), None, delta_override,
                                       use_oldest_delta)
       IN  /\ ret' = r
           /\ IF r.err # NoError
              THEN /\ app' = [app EXCEPT !.exc = r.err]
                   /\ pc' = "app_raised"
              ELSE /\ app' = [app EXCEPT !.df = r.df,
                                         !.actual_anchor = Some(ActualAnchor(anchor_date, r.df))]
                   /\ pc' = "app_done"
    /\ UNCHANGED <<cb_close, udly_close, ud_delta, anchor_date, method, nuke_series,
                   delta_override, use_oldest_delta, env, nk>>

NextApp == AppStart \/ AppTry \/ AppFromSeries

SpecApp == InitApp /\ [][NextApp]_vars

----------------------------------------------------------------------------
(* Properties of compute_dollar_neutral, stated on the arguments and on    *)
(* the outcome of the call.                                                *)

\* series s has a non-missing value at date d
Present(s, d) == \E i \in 1..Len(s) : s[i].date = d /\ s[i].val # NaN

\* series s has a row (a value or NaN) at date d
HasRow(s, d) == \E i \in 1..Len(s) : s[i].date = d

\* the value of the arguments at a date they hold
InputAt(s, d) == s[CHOOSE i \in 1..Len(s) : s[i].date = d].val

\* the dates at which all three arguments have a value
AlignedDates ==
    {d \in Dates : Present(cb_close, d) /\ Present(udly_close, d)
                   /\ Present(ud_delta, d)}

Returned == pc = "returned"
Raised == pc = "raised"
Table == ret.df
TableDates == {Table[i].date : i \in 1..Len(Table)}
TableRow(d) == Table[CHOOSE i \in 1..Len(Table) : Table[i].date = d]
Supported == method \in {"delta", "external_nuke"}

\* C1: whenever the call returns, the dates of the table are exactly the
\* dates at which the three arguments all have a value, in strictly
\* increasing order, and the three base columns carry the input values.
C1_Alignment ==
    Returned =>
        /\ TableDates = AlignedDates
        /\ \A i, j \in 1..Len(Table) : i < j => Table[i].date < Table[j].date
        /\ \A i \in 1..Len(Table) :
               /\ Table[i].cb_close = InputAt(cb_close, Table[i].date)
               /\ Table[i].udly_close = InputAt(udly_close, Table[i].date)
               /\ Table[i].ud_delta = InputAt(ud_delta, Table[i].date)
               /\ Table[i].cb_close # NaN
               /\ Table[i].udly_close # NaN
               /\ Table[i].ud_delta # NaN

\* a returned table of several rows, from series given out of order
C1_Witness ==
    /\ Returned
    /\ Len(Table) >= 2
    /\ \E i \in 1..(Len(cb_close) - 1) : cb_close[i].date > cb_close[i + 1].date

\* a returned table from which a date of cb_close was dropped for a missing
\* value of another series
C1_WitnessDropped ==
    /\ Returned
    /\ \E d \in Dates : /\ Present(cb_close, d)
                        /\ HasRow(ud_delta, d)
                        /\ ~Present(ud_delta, d)

\* C2: for method "delta", at every date t of the table,
\* nuke(t) = CB0 + D0 * (U(t) - U0) and dn(t) = nuke(t) - CB(t), with CB0 and
\* U0 the input prices at the resolved anchor T0 and D0 the resolved delta,
\* whatever nuke_series is supplied.
C2_LinearFormula ==
    (Returned /\ method = "delta") =>
        LET T0 == ret.T0[1]
            CB0 == InputAt(cb_close, T0)[1]
            U0 == InputAt(udly_close, T0)[1]
            D0 == ret.D0[1]
        IN  \A i \in 1..Len(Table) :
                LET t == Table[i].date
                    U == InputAt(udly_close, t)[1]
                    CB == InputAt(cb_close, t)[1]
                IN  /\ Table[i].nuke = <<CB0 + D0 * (U - U0)>>
                    /\ Table[i].dn = <<CB0 + D0 * (U - U0) - CB>>

\* a linear table with a non-zero residual, computed with a nuke_series given
C2_Witness ==
    /\ Returned
    /\ method = "delta"
    /\ nuke_series # None
    /\ \E i \in 1..Len(Table) : Table[i].dn # <<0>>

\* C3: for method "delta", dn(T0) = 0 and nuke(T0) = CB0 at the resolved
\* anchor, for every delta_override, use_oldest_delta and anchor resolution.
C3_ZeroResidualAtAnchor ==
    (Returned /\ method = "delta") =>
        /\ ret.T0 # None
        /\ ret.T0[1] \in TableDates
        /\ TableRow(ret.T0[1]).dn = <<0>>
        /\ TableRow(ret.T0[1]).nuke = InputAt(cb_close, ret.T0[1])

\* a linear table anchored at a later row than the first, with a delta that
\* is not zero and an underlying price that moved
C3_Witness ==
    /\ Returned
    /\ method = "delta"
    /\ ret.T0[1] # Table[1].date
    /\ ret.D0 # <<0>>
    /\ Table[1].udly_close # ret.U0

\* C4: with an anchor_date, T0 is the smallest aligned date >= the requested
\* date (the requested date when it is aligned); T0 is always an aligned date.
C4_AnchorSnapping ==
    Returned =>
        /\ ret.T0 # None
        /\ ret.T0[1] \in AlignedDates
        /\ anchor_date # None =>
               /\ ret.T0[1] >= anchor_date[1]
               /\ \A d \in AlignedDates : d >= anchor_date[1] => ret.T0[1] <= d
               /\ anchor_date[1] \in AlignedDates => ret.T0 = anchor_date

\* a requested date that an input holds but alignment dropped, snapped forward
C4_Witness ==
    /\ Returned
    /\ anchor_date # None
    /\ HasRow(cb_close, anchor_date[1])
    /\ anchor_date[1] \notin AlignedDates
    /\ ret.T0[1] > anchor_date[1]

\* a requested date before two aligned dates
C4_WitnessSeveral ==
    /\ Returned
    /\ anchor_date # None
    /\ Cardinality({d \in AlignedDates : d > anchor_date[1]}) >= 2
    /\ anchor_date[1] \notin AlignedDates

\* C5: with a non-empty aligned frame and a supported method, the call fails
\* with the anchor-out-of-range error if and only if the requested date is
\* after the last aligned date, for both methods, and returns no table then.
C5_AnchorOutOfRange ==
    (pc # "call" /\ Supported /\ AlignedDates # {}) =>
        /\ (ret.err = ErrAnchorOutOfRange) <=>
               (anchor_date # None /\ \A d \in AlignedDates : anchor_date[1] > d)
        /\ ret.err = ErrAnchorOutOfRange => (Raised /\ Table = <<>>)

\* the anchor error of an external_nuke call that has no nuke_series
C5_Witness ==
    /\ Raised
    /\ ret.err = ErrAnchorOutOfRange
    /\ method = "external_nuke"
    /\ nuke_series = None

\* C6: without anchor_date, T0 is the earliest aligned date, not the earliest
\* date of one input series.
C6_AnchorDefault ==
    (Returned /\ anchor_date = None) =>
        /\ ret.T0 # None
        /\ ret.T0[1] \in AlignedDates
        /\ \A d \in AlignedDates : ret.T0[1] <= d

\* a default anchor later than the first date of cb_close, with two aligned
\* dates
C6_Witness ==
    /\ Returned
    /\ anchor_date = None
    /\ \E d \in Dates : HasRow(cb_close, d) /\ d < ret.T0[1]

C6_WitnessSeveral ==
    /\ Returned
    /\ anchor_date = None
    /\ Cardinality(AlignedDates) >= 2

\* C7: D0 is delta_override whenever it is given (also 0, also with
\* use_oldest_delta); else with use_oldest_delta the delta at the earliest
\* aligned date; else the delta at T0.
C7_DeltaPrecedence ==
    Returned =>
        LET first == CHOOSE d \in AlignedDates : \A e \in AlignedDates : d <= e
        IN  ret.D0 = IF delta_override # None THEN delta_override
                     ELSE IF use_oldest_delta THEN InputAt(ud_delta, first)
                     ELSE InputAt(ud_delta, ret.T0[1])

\* an override of 0 given together with use_oldest_delta
C7_Witness ==
    /\ Returned
    /\ delta_override = Some(0)
    /\ use_oldest_delta
    /\ Table[1].ud_delta # Some(0)

\* the oldest delta used with a later anchor that has another delta
C7_WitnessOldest ==
    /\ Returned
    /\ delta_override = None
    /\ use_oldest_delta
    /\ ret.T0[1] # Table[1].date
    /\ TableRow(ret.T0[1]).ud_delta # Table[1].ud_delta

\* C8: for method "external_nuke" with a nuke_series, the table has exactly
\* the aligned rows; at an aligned date the series covers, nuke is the
\* supplied value and dn = nuke - cb_close; at an aligned date it does not
\* cover, the row is kept with a missing nuke and a missing dn.
C8_ExternalNuke ==
    (Returned /\ method = "external_nuke") =>
        /\ nuke_series # None
        /\ TableDates = AlignedDates
        /\ Len(Table) = Cardinality(AlignedDates)
        /\ \A i \in 1..Len(Table) :
               LET t == Table[i].date
                   CB == InputAt(cb_close, t)
               IN  IF HasRow(nuke_series[1], t)
                   THEN LET v == InputAt(nuke_series[1], t)
                        IN  /\ Table[i].nuke = v
                            /\ Table[i].dn = IF v = NaN THEN NaN
                                             ELSE <<v[1] - CB[1]>>
                   ELSE Table[i].nuke = NaN /\ Table[i].dn = NaN

\* an external table with a covered row, an uncovered row, and a date of the
\* nuke_series outside the aligned dates
C8_Witness ==
    /\ Returned
    /\ method = "external_nuke"
    /\ \E i \in 1..Len(Table) : Table[i].nuke # NaN /\ Table[i].dn # NaN
    /\ \E i \in 1..Len(Table) : ~HasRow(nuke_series[1], Table[i].date)
    /\ \E j \in 1..Len(nuke_series[1]) :
           nuke_series[1][j].date \notin AlignedDates

\* C9 as stated: every call with method "external_nuke" and no nuke_series
\* fails with the missing-nuke-series error.
C9_AsStated ==
    (pc # "call" /\ method = "external_nuke" /\ nuke_series = None) =>
        (Raised /\ ret.err = ErrMissingNukeSeries)

\* C9 amended: every call with method "external_nuke" and no nuke_series
\* fails and returns no table; the error is the missing-nuke-series error
\* exactly when the aligned frame is non-empty and the anchor is absent or
\* not after the last aligned date; otherwise it is the empty-overlap or the
\* anchor-out-of-range error, which are checked first.
C9_MissingNukeSeries ==
    (pc # "call" /\ method = "external_nuke" /\ nuke_series = None) =>
        /\ Raised
        /\ Table = <<>>
        /\ ret.err = IF AlignedDates = {} THEN ErrEmptyOverlap
                     ELSE IF anchor_date # None
                             /\ \A d \in AlignedDates : anchor_date[1] > d
                          THEN ErrAnchorOutOfRange
                     ELSE ErrMissingNukeSeries

\* the missing-nuke-series error, raised after a snapped anchor
C9_Witness ==
    /\ Raised
    /\ ret.err = ErrMissingNukeSeries
    /\ anchor_date # None
    /\ anchor_date[1] \notin AlignedDates

\* C10: for either supported method and any other arguments, a call whose
\* series have no date with all three values present fails with the
\* empty-overlap error and returns no table.
C10_EmptyOverlap ==
    (pc # "call" /\ Supported /\ AlignedDates = {}) =>
        (Raised /\ ret.err = ErrEmptyOverlap /\ Table = <<>>)

\* the empty-overlap error for series that share a date on which a value is
\* missing, with an anchor and a nuke_series given
C10_Witness ==
    /\ Raised
    /\ ret.err = ErrEmptyOverlap
    /\ \E d \in Dates :
           HasRow(cb_close, d) /\ HasRow(udly_close, d) /\ HasRow(ud_delta, d)
    /\ anchor_date # None
    /\ nuke_series # None

\* C11: a call whose method is neither "delta" nor "external_nuke" fails with
\* the unsupported-method error whatever the other arguments are: the method
\* is checked before the overlap, the anchor and the nuke_series.
C11_UnsupportedMethod ==
    (pc # "call" /\ ~Supported) =>
        (Raised /\ ret.err = ErrUnsupportedMethod /\ Table = <<>>)

\* the unsupported-method error of a call whose series have no overlap
C11_Witness ==
    /\ Raised
    /\ ~Supported
    /\ ret.err = ErrUnsupportedMethod
    /\ AlignedDates = {}

\* the unsupported-method error of a call whose anchor is after the last
\* aligned date
C11_WitnessAnchor ==
    /\ Raised
    /\ ~Supported
    /\ AlignedDates # {}
    /\ anchor_date # None
    /\ \A d \in AlignedDates : anchor_date[1] > d

----------------------------------------------------------------------------
(* Properties of compute_nuke_series_with_bql, stated on its udly_close    *)
(* argument, on the answers of the runtime and on the outcome.             *)

NukeDone == nk.pc \in {"returned", "raised"}
UdlyDates == {udly_close[i].date : i \in 1..Len(udly_close)}
SeriesDates(s) == {s[i].date : i \in 1..Len(s)}

\* the dates of udly_close at which the vectorized request answers a value
BulkDates ==
    IF env.service = "ok" /\ env.bulk # None
    THEN {d \in UdlyDates : Present(env.bulk[1], d)}
    ELSE {}

\* the dates of udly_close whose own request answers
SingleDates == {d \in UdlyDates : env.service = "ok" /\ env.single[d] # None}

\* bulk, then per-date, then raise: the vectorized result is returned when it
\* has a value on the given dates; else, with the nuke function available,
\* one call is made per date in ascending order, the dates that failed are
\* skipped, and the call raises when all failed; without the nuke function
\* the call raises and makes no per-date call.
C13_Strategy ==
    NukeDone =>
        /\ BulkDates # {} =>
               /\ nk.pc = "returned"
               /\ nk.calls = <<>>
               /\ SeriesDates(nk.series) = BulkDates
               /\ \A i \in 1..Len(nk.series) :
                      nk.series[i].val = InputAt(env.bulk[1], nk.series[i].date)
        /\ (BulkDates = {} /\ env.service = "ok") =>
               /\ nk.calls = Ascending(UdlyDates)
               /\ (nk.pc = "raised") <=> (SingleDates = {})
               /\ nk.pc = "raised" => nk.err = ErrNukeFailed
               /\ nk.pc = "returned" =>
                      /\ SeriesDates(nk.series) = SingleDates
                      /\ \A i \in 1..Len(nk.series) :
                             nk.series[i].val = env.single[nk.series[i].date][1]
        /\ env.service # "ok" => (nk.pc = "raised" /\ nk.calls = <<>>)
        /\ nk.pc = "returned" =>
               /\ nk.series # <<>>
               /\ SeriesDates(nk.series) \subseteq UdlyDates
               /\ \A i, j \in 1..Len(nk.series) :
                      i < j => nk.series[i].date < nk.series[j].date

\* a series returned by the per-date calls, one of which failed
C13_WitnessPerDate ==
    /\ nk.pc = "returned"
    /\ Len(nk.calls) >= 2
    /\ Len(nk.series) < Len(nk.calls)

\* C13 as stated: the strategy above, and whenever the call returns the
\* series is non-empty, has no missing value and has its dates among those
\* of udly_close.
C13_AsStated ==
    /\ C13_Strategy
    /\ nk.pc = "returned" =>
           /\ nk.series # <<>>
           /\ \A i \in 1..Len(nk.series) : nk.series[i].val # NaN
           /\ SeriesDates(nk.series) \subseteq UdlyDates

----------------------------------------------------------------------------
(* Properties of plot_dn_static, DNApp._on_run and                         *)
(* plot_dn_static_from_series, stated on the arguments of the call, which  *)
(* no action changes.                                                      *)

AppEnded == pc \in {"app_done", "app_raised"}

Orchestrated == app.fn \in {"plot_dn_static", "_on_run"}

\* the DELTA table of the caller's arguments
DeltaFirst ==
    compute_dollar_neutral(cb_close, udly_close, ud_delta, anchor_date, "delta",
                           None, delta_override, use_oldest_delta)

\* the provider on the underlying prices of the DELTA table
Provider == compute_nuke_series_with_bql(UdlyColumn(DeltaFirst.df), env)

\* the EXTERNAL_NUKE table of the provider's series at anchor a
ExternalTable(a) ==
    compute_dollar_neutral(cb_close, udly_close, ud_delta, Some(a), "external_nuke",
                           Some(Provider.series), None, FALSE)

FallbackNote == IF app.fn = "_on_run" THEN NoteFallbackOnRun ELSE NoteFallbackStatic

\* the call reached the test of the method
FirstDeltaDone ==
    /\ Orchestrated
    /\ AppEnded
    /\ Strip(app.cb_ticker) # <<>>
    /\ env.service # "no_service"
    /\ DeltaFirst.err = NoError

C14_WitnessExternal ==
    /\ FirstDeltaDone
    /\ app.fn = "_on_run"
    /\ app.method_note = NoteBql
    /\ app.df # DeltaFirst.df
    /\ Len(app.df) > 1

\* the first DELTA call failed with the BQL nuke method selected
C14_WitnessFirstDelta ==
    /\ Orchestrated
    /\ pc = "app_raised"
    /\ SelectsBql(app.fn, method)
    /\ env.service = "ok"
    /\ Strip(app.cb_ticker) # <<>>
    /\ app.exc = ErrAnchorOutOfRange
    /\ app.df = <<>>

\* C15 as stated: the anchor of the orchestration is the T0 the engine
\* resolved in the first DELTA call, whatever the requested anchor, and a
\* successful provider yields the EXTERNAL_NUKE table at that T0.
C15_AsStated ==
    (FirstDeltaDone /\ SelectsBql(app.fn, method)) =>
        /\ app.actual_anchor = DeltaFirst.T0
        /\ Provider.pc = "returned" =>
               /\ app.method_note = NoteBql
               /\ app.df = ExternalTable(DeltaFirst.T0[1]).df

\* C15, where the code keeps it: a requested anchor that is absent or a
\* label of the aligned table is the T0 of the engine, and then a
\* successful provider yields the EXTERNAL_NUKE table.
C15_LabelAnchor ==
    (/\ FirstDeltaDone
     /\ SelectsBql(app.fn, method)
     /\ \/ anchor_date = None
        \/ InIndex(DeltaFirst.df, anchor_date[1])) =>
        /\ app.actual_anchor = DeltaFirst.T0
        /\ Provider.pc = "returned" =>
               /\ app.method_note = NoteBql
               /\ app.df = ExternalTable(DeltaFirst.T0[1]).df

\* C15, what the code does with a snapped anchor: the requested date is
\* kept, it is no label of the table, and the DELTA table is returned with
\* the fallback note although the provider would have answered.
C15_SnappedAnchor ==
    (/\ FirstDeltaDone
     /\ SelectsBql(app.fn, method)
     /\ anchor_date # None
     /\ ~InIndex(DeltaFirst.df, anchor_date[1])) =>
        /\ app.actual_anchor = anchor_date
        /\ app.actual_anchor # DeltaFirst.T0
        /\ app.method_note = FallbackNote
        /\ app.df = DeltaFirst.df

C15_WitnessSnapped ==
    /\ FirstDeltaDone
    /\ SelectsBql(app.fn, method)
    /\ anchor_date # None
    /\ ~InIndex(DeltaFirst.df, anchor_date[1])
    /\ Provider.pc = "returned"
    /\ app.method_note = FallbackNote

\* C16: plot_dn_static_from_series calls the engine with EXTERNAL_NUKE
\* exactly when the method string, lowered, starts with "external", and with
\* DELTA otherwise; an "external" call ends in the error of the engine for
\* the first check that fails (the missing nuke_series when the overlap is
\* non-empty and the anchor in range) and returns no table; any other call
\* returns the DELTA table whenever the overlap is non-empty and the anchor
\* in range.
C16_FromSeries ==
    (app.fn = "plot_dn_static_from_series" /\ AppEnded) =>
        LET external == StartsWith(StrLower(method), StrExternal)
            al == Align(cb_close, udly_close, ud_delta)
            inRange == al # <<>> /\ ResolveAnchor(al, anchor_date).err = NoError
        IN  /\ external =>
                /\ pc = "app_raised"
                /\ app.df = <<>>
                /\ app.exc # NoError
                /\ inRange => app.exc = ErrMissingNukeSeries
            /\ (~external /\ inRange) =>
                /\ pc = "app_done"
                /\ app.df = DeltaFirst.df
                /\ app.df # <<>>
            /\ (~external /\ ~inRange) =>
                /\ pc = "app_raised"
                /\ app.exc = DeltaFirst.err

\* an "External n..." string on series with an overlap and no anchor
C16_Witness ==
    /\ app.fn = "plot_dn_static_from_series"
    /\ pc = "app_raised"
    /\ method # StrLower(method)
    /\ StartsWith(StrLower(method), StrExternal)
    /\ Len(Align(cb_close, udly_close, ud_delta)) > 1
    /\ app.exc = ErrMissingNukeSeries

\* " external", with a space first, is not an "external" method: DELTA
C16_WitnessDelta ==
    /\ app.fn = "plot_dn_static_from_series"
    /\ pc = "app_done"
    /\ method = <<" ">> \o StrExternal
    /\ Len(app.df) > 1

====
